---------------------------- MODULE Spec2Model ----------------------------
(***************************************************************************)
(* A model of the curriculum-vitae generator: the block classifier and     *)
(* the section renderers of gen.py, the document assembler gen(), and the  *)
(* command line of __main__.py with its two PDF conversion paths.          *)
(*                                                                         *)
(* Strings are sequences of one-character strings, so that str.split,      *)
(* str.upper and concatenation are computed and not assumed.               *)
(***************************************************************************)
EXTENDS Integers, Sequences, FiniteSets, TLC

(***************************************************************************)
(* Bounds of the model.                                                    *)
(***************************************************************************)
MaxStrLen == 3
MaxListLen == 4
MaxPairs == 2
MaxEntries == 2
MaxProgEntries == 2
MaxPages == 2

(***************************************************************************)
(* Strings.                                                                *)
(***************************************************************************)
LowerCase == <<"a", "b", "c", "d", "e", "f", "g", "h", "i", "j", "k", "l", "m",
               "n", "o", "p", "q", "r", "s", "t", "u", "v", "w", "x", "y", "z">>
UpperCase == <<"A", "B", "C", "D", "E", "F", "G", "H", "I", "J", "K", "L", "M",
               "N", "O", "P", "Q", "R", "S", "T", "U", "V", "W", "X", "Y", "Z">>

\* One character of str.upper().
UpperChar(c) ==
    IF \E i \in DOMAIN LowerCase : LowerCase[i] = c
    THEN UpperCase[CHOOSE i \in DOMAIN LowerCase : LowerCase[i] = c]
    ELSE c

\* str.upper()
upper(s) == [i \in DOMAIN s |-> UpperChar(s[i])]

\* Index of the first occurrence of character c in s, 0 when there is none.
Find(s, c) ==
    IF \E i \in DOMAIN s : s[i] = c
    THEN CHOOSE i \in DOMAIN s : s[i] = c /\ \A j \in 1..(i - 1) : s[j] # c
    ELSE 0

\* str.split(c): the pieces of s between the occurrences of c.
RECURSIVE split(_, _)
split(s, c) ==
    LET i == Find(s, c) IN
    IF i = 0 THEN <<s>>
    ELSE <<SubSeq(s, 1, i - 1)>> \o split(SubSeq(s, i + 1, Len(s)), c)

\* All sequences over S of length at most n.
SeqsUpTo(S, n) == UNION {[1..k -> S] : k \in 0..n}

(***************************************************************************)
(* Values of an unwrapped TOML document: str, int, list and dict.  A dict  *)
(* is an ordered sequence of key/value pairs with distinct keys; TOML keys *)
(* are always strings.                                                     *)
(***************************************************************************)
Str(s) == [t |-> "str", s |-> s, items |-> <<>>, pairs |-> <<>>]
Int42 == [t |-> "int", s |-> <<>>, items |-> <<>>, pairs |-> <<>>]
List(items) == [t |-> "list", s |-> <<>>, items |-> items, pairs |-> <<>>]
Dict(pairs) == [t |-> "dict", s |-> <<>>, items |-> <<>>, pairs |-> pairs]
Pair(k, v) == [k |-> k, v |-> v]

\* "k in d" and d[k] for a dict value
DictHas(d, k) == \E i \in DOMAIN d.pairs : d.pairs[i].k = k
DictGet(d, k) == d.pairs[CHOOSE i \in DOMAIN d.pairs : d.pairs[i].k = k].v

Underscore == <<"_">>

(***************************************************************************)
(* The document model: what the odf elements built by gen.py hold.         *)
(***************************************************************************)
NoStyle == "None"

\* P(stylename=style, text=text): a paragraph with its own text, no child.
P(style, text) == [style |-> style, text |-> text, children |-> <<>>]

\* Span(stylename=style, text=text) and A(text=text, href=href)
Span(style, text) == [tag |-> "span", style |-> style, text |-> text, href |-> <<>>]
A(text, href) == [tag |-> "a", style |-> NoStyle, text |-> text, href |-> href]

\* TableCell(valuetype="string", numbercolumnsspanned=.., numberrowsspanned=..)
TableCell(colspan, rowspan, paras) ==
    [colspan |-> colspan, rowspan |-> rowspan, paras |-> paras]

Table(columns, rows) == [columns |-> columns, rows |-> rows]

\* The header row every section starts with: "+ " + title.upper()
HeaderText(title) == <<"+", " ">> \o upper(title)


(***************************************************************************)
(* The section renderers of gen.py.  A block is a section name with the    *)
(* value get_blocks yielded for it.                                        *)
(***************************************************************************)
Block(name, value) == [name |-> name, value |-> value]

\* An optional line: what zip_longest and get_list_cell call "line | None".
Some(s) == [some |-> TRUE, s |-> s]
None == [some |-> FALSE, s |-> <<>>]

\* The bold flag of get_paragraph's i-th token: it starts False and flips
\* after every token.
RECURSIVE BoldAt(_)
BoldAt(i) == IF i = 1 THEN FALSE ELSE ~BoldAt(i - 1)

get_paragraph(style, value) ==
    LET parts == split(value, "_") IN
    [style |-> style, text |-> <<>>,
     children |-> [i \in DOMAIN parts |->
                     Span(IF BoldAt(i) THEN "Bold" ELSE NoStyle, parts[i])]]

\* get_normal_row that does not split the value into lines
get_normal_row_one_paragraph(title, value) ==
    << TableCell(1, 1, <<P("Table key", title)>>),
       TableCell(1, 1, <<get_paragraph("Table value", value)>>) >>

get_normal_row(title, value) ==
    LET lines == split(value, "\n") IN
    << TableCell(1, 1, <<P("Table key", title)>>),
       TableCell(1, 1, [i \in DOMAIN lines |->
                          get_paragraph("Table value", lines[i])]) >>

get_dict_section(block) ==
    LET values == block.value.pairs IN
    Table(<<"Table column key", "Table column value">>,
          << <<TableCell(2, 1, <<P("Table header", HeaderText(block.name))>>)>> >>
          \o [i \in DOMAIN values |->
                get_normal_row(values[i].k, values[i].v.s)])

get_list_cell(line) ==
    TableCell(1, 1, IF line.some THEN <<P("Table value", line.s)>> ELSE <<>>)

\* len(values) // 2 in the place of the ceiling
floor_half(n) == CHOOSE m \in 0..n : 2 * m <= n /\ 2 * (m + 1) > n

\* math.ceil(n / 2): the least integer that is at least n / 2.
ceil_half(n) == CHOOSE m \in 0..n : 2 * m >= n /\ 2 * (m - 1) < n

\* itertools.zip_longest(left, right): as many pairs as the longer one has
\* elements, the shorter one filled with None.
zip_longest(left, right) ==
    LET n == IF Len(left) >= Len(right) THEN Len(left) ELSE Len(right) IN
    [i \in 1..n |->
       << IF i <= Len(left) THEN Some(left[i]) ELSE None,
          IF i <= Len(right) THEN Some(right[i]) ELSE None >>]

get_list_section(block) ==
    LET values == [i \in DOMAIN block.value.items |-> block.value.items[i].s]
        middle == ceil_half(Len(values))
        lines  == zip_longest(SubSeq(values, 1, middle),
                              SubSeq(values, middle + 1, Len(values)))
    IN Table(<<"Table value", "Table value">>,
             << <<TableCell(2, 1, <<P("Table header", HeaderText(block.name))>>)>> >>
             \o [i \in DOMAIN lines |->
                   [e \in DOMAIN lines[i] |-> get_list_cell(lines[i][e])]])

get_text_section(block) ==
    Table(<<>>,
          << <<TableCell(1, 1, <<P("Table header", HeaderText(block.name))>>)>>,
             <<get_list_cell(Some(block.value.s))>> >>)

(***************************************************************************)
(* State.                                                                  *)
(***************************************************************************)
VARIABLES
    input,      \* the configuration read from standard input
    fmt,        \* args.fmt: "odt" or "pdf"
    backend,    \* the backend of pdf_convert: "none", "libreoffice", "pandoc"
    pc,         \* where main() is
    config,     \* the configuration object gen() works on (get_header pops)
    pos,        \* get_blocks: index of the next item it looks at
    body,       \* doc.text: the tables added to the document so far
    out,        \* the chunks written to standard output
    err,        \* the exception that ended the run
    pdf,        \* the pages of the file libreoffice converted the document to
    pages,      \* the list glob made of the separated page files
    task,       \* rm_if_empty_pdf: per page, where its task is and the text length
    gexc,       \* the first exception a task handed to asyncio.gather
    procs,      \* every subprocess created so far, in order, with its exit code
    block,      \* the block handed to a section renderer
    rendered,   \* which renderer ran on it: "no", "text", "list", "dict"
    table       \* the table that renderer returned

gvars == <<input, fmt, backend, pc, config, pos, body, out, err>>
cvars == <<pdf, pages, task, gexc, procs>>
rvars == <<block, rendered, table>>
gvars_but_pc == <<input, fmt, backend, config, pos, body, out, err>>
vars == <<input, fmt, backend, pc, config, pos, body, out, err,
          pdf, pages, task, gexc, procs, block, rendered, table>>

NoErr == [kind |-> "none", name |-> <<>>, cmd |-> <<>>, code |-> 0]
NoBlock == [name |-> <<>>, value |-> [t |-> "none", s |-> <<>>, items |-> <<>>, pairs |-> <<>>]]

NoTable == Table(<<>>, <<>>)

(***************************************************************************)
(* The renderers on their own: a block of one of the three kinds, and the  *)
(* renderer gen() dispatches it to.                                        *)
(***************************************************************************)
Alphabet == {"a", "_", "\n"}
SectionNames == {<<"a", "b">>, <<"N", "_", "1">>}
Items == {<<>>, <<"a">>, <<"b">>}
DictKeys == {<<"k">>, <<"j">>, Underscore}
DictStrings ==
    { <<>>, <<"a">>, <<"_">>, <<"\n">>, <<"_", "\n">>, <<"a", "_", "b">>,
      <<"a", "\n", "b">>, <<"x", "_", "y", "_", "z">>, <<"a", "_", "\n", "b", "_">> }

TextValues == {Str(s) : s \in SeqsUpTo(Alphabet, MaxStrLen)}
ListValues == {List([i \in DOMAIN l |-> Str(l[i])]) : l \in SeqsUpTo(Items, MaxListLen)}
\* get_blocks never yields a mapping whose only key is "_": it yields the
\* value under that key instead.
DictValues ==
    UNION {
      {Dict([i \in 1..m |-> Pair(ks[i], Str(vs[i]))]) :
         ks \in {f \in [1..m -> DictKeys] :
                  /\ \A i, j \in 1..m : i # j => f[i] # f[j]
                  /\ ~(m = 1 /\ f[1] = Underscore)},
         vs \in [1..m -> DictStrings]} : m \in 0..MaxPairs}

InitRender ==
    /\ block \in {Block(n, v) : n \in SectionNames,
                                v \in TextValues \cup ListValues \cup DictValues}
    /\ rendered = "no"
    /\ table = NoTable
    /\ input = <<>> /\ config = <<>> /\ fmt = "odt" /\ backend = "none"
    /\ pc = "render" /\ pos = 1 /\ body = <<>> /\ out = <<>> /\ err = NoErr
    /\ pdf = <<>> /\ pages = <<>> /\ task = <<>> /\ gexc = NoErr /\ procs = <<>>

RenderText ==
    /\ rendered = "no"
    /\ block.value.t = "str"
    /\ table' = get_text_section(block)
    /\ rendered' = "text"
    /\ UNCHANGED <<block, gvars, cvars>>

RenderList ==
    /\ rendered = "no"
    /\ block.value.t = "list"
    /\ table' = get_list_section(block)
    /\ rendered' = "list"
    /\ UNCHANGED <<block, gvars, cvars>>

RenderDict ==
    /\ rendered = "no"
    /\ block.value.t = "dict"
    /\ table' = get_dict_section(block)
    /\ rendered' = "dict"
    /\ UNCHANGED <<block, gvars, cvars>>

NextRender == RenderText \/ RenderList \/ RenderDict

SpecRender == InitRender /\ [][NextRender]_vars


(***************************************************************************)
(* The block classifier, get_blocks.                                       *)
(***************************************************************************)

\* isinstance(o, Sequence) and all(isinstance(e, str) for e in o): a str is
\* itself a Sequence whose elements are strs.
is_seq_of_str(o) ==
    /\ o.t \in {"str", "list"}
    /\ o.t = "list" => \A i \in DOMAIN o.items : o.items[i].t = "str"

\* isinstance(o, Mapping) and every key and value is a str
is_mapping_of_str_to_str(o) ==
    /\ o.t = "dict"
    /\ \A i \in DOMAIN o.pairs : o.pairs[i].v.t = "str"

Yield(name, value) == [raise |-> FALSE, block |-> Block(name, value)]
Raise(name) == [raise |-> TRUE, block |-> Block(name, Int42)]

\* get_blocks that also takes a bare sequence of strings for a list block
get_blocks_item_taking_lists(name, v) ==
    IF v.t = "str" THEN Yield(name, v)
    ELSE IF v.t = "dict"
         THEN IF Len(v.pairs) = 1 /\ DictHas(v, Underscore)
                 /\ is_seq_of_str(DictGet(v, Underscore))
              THEN Yield(name, DictGet(v, Underscore))
              ELSE IF is_mapping_of_str_to_str(v) THEN Yield(name, v)
              ELSE Raise(name)
         ELSE IF is_seq_of_str(v) THEN Yield(name, v)
         ELSE Raise(name)

\* get_blocks that yields the mapping itself where it should yield v["_"]
get_blocks_item_no_alias(name, v) ==
    IF v.t = "str" THEN Yield(name, v)
    ELSE IF v.t = "dict"
         THEN IF Len(v.pairs) = 1 /\ DictHas(v, Underscore)
                 /\ is_seq_of_str(DictGet(v, Underscore))
              THEN Yield(name, v)
              ELSE IF is_mapping_of_str_to_str(v) THEN Yield(name, v)
              ELSE Raise(name)
         ELSE Raise(name)

\* One turn of the loop of get_blocks: what it yields for an item, or that
\* it raises UnexpectedBlockType(name, type(v)).
get_blocks_item(name, v) ==
    IF v.t = "str" THEN Yield(name, v)
    ELSE IF v.t = "dict"
         THEN IF Len(v.pairs) = 1 /\ DictHas(v, Underscore)
                 /\ is_seq_of_str(DictGet(v, Underscore))
              THEN Yield(name, DictGet(v, Underscore))
              ELSE IF is_mapping_of_str_to_str(v) THEN Yield(name, v)
              ELSE Raise(name)
         ELSE Raise(name)

UnexpectedBlockType(name) ==
    [kind |-> "UnexpectedBlockType", name |-> name, cmd |-> <<>>, code |-> 0]

(***************************************************************************)
(* The header, get_header.                                                 *)
(***************************************************************************)
TitleKey == <<"t", "i", "t", "l", "e">>
SubtitleKey == <<"s", "u", "b", "t", "i", "t", "l", "e">>
UrlsKey == <<"u", "r", "l", "s">>

\* "k in config", config[k] and config without k (what config.pop leaves)
ConfigHas(c, k) == \E i \in DOMAIN c : c[i].k = k
ConfigGet(c, k) == c[CHOOSE i \in DOMAIN c : c[i].k = k].v
ConfigWithout(c, k) == SelectSeq(c, LAMBDA e : e.k # k)

\* get_header that reads urls without popping it
pop_header_keeps_urls(c) == ConfigWithout(ConfigWithout(c, TitleKey), SubtitleKey)

\* The configuration after the three pops of get_header.
pop_header(c) ==
    ConfigWithout(ConfigWithout(ConfigWithout(c, TitleKey), SubtitleKey), UrlsKey)

\* The table get_header returns.  P(text=None) has no text.  The first url
\* cell goes into the row of the title cell; every later url has its own row.
get_header(c) ==
    LET title    == IF ConfigHas(c, TitleKey) THEN ConfigGet(c, TitleKey).s ELSE <<>>
        subtitle == IF ConfigHas(c, SubtitleKey)
                    THEN upper(ConfigGet(c, SubtitleKey).s) ELSE <<>>
        urls     == IF ConfigHas(c, UrlsKey) THEN ConfigGet(c, UrlsKey).pairs ELSE <<>>
        tc       == TableCell(1, Len(urls), <<P("Title", title), P("Subtitle", subtitle)>>)
        link(i)  == TableCell(1, 1, <<[style |-> "Urls", text |-> <<>>,
                                       children |-> <<A(urls[i].k, urls[i].v.s)>>]>>)
    IN Table(<<"Table title", "Table urls">>,
             [i \in 1..(IF Len(urls) = 0 THEN 1 ELSE Len(urls)) |->
                IF i = 1 THEN <<tc>> \o (IF Len(urls) = 0 THEN <<>> ELSE <<link(1)>>)
                ELSE <<link(i)>>])

(***************************************************************************)
(* gen: the header, then one table per block, in the order of get_blocks.  *)
(***************************************************************************)

\* The dispatch of gen on the type of block[1].
section_table(b) ==
    IF b.value.t = "str" THEN get_text_section(b)
    ELSE IF b.value.t = "list" THEN get_list_section(b)
    ELSE get_dict_section(b)

\* doc = OpenDocumentText(); add_styles(doc); doc.text gets the header.
GenHeader ==
    /\ pc = "generate"
    /\ body' = <<get_header(config)>>
    /\ config' = pop_header(config)
    /\ pos' = 1
    /\ pc' = "blocks"
    /\ UNCHANGED <<input, fmt, backend, out, err, cvars, rvars>>

\* One turn of "for block in get_blocks(config)".
GenBlock ==
    /\ pc = "blocks"
    /\ pos <= Len(config)
    /\ LET r == get_blocks_item(config[pos].k, config[pos].v) IN
       \/ /\ ~r.raise
          /\ body' = Append(body, section_table(r.block))
          /\ pos' = pos + 1
          /\ UNCHANGED <<pc, err>>
       \/ /\ r.raise
          /\ err' = UnexpectedBlockType(config[pos].k)
          /\ pc' = "failed"
          /\ UNCHANGED <<body, pos>>
    /\ UNCHANGED <<input, fmt, backend, config, out, cvars, rvars>>

\* get_blocks is exhausted: gen returns the document.
GenReturn ==
    /\ pc = "blocks"
    /\ pos > Len(config)
    /\ pc' = "generated"
    /\ UNCHANGED <<input, fmt, backend, config, pos, body, out, err, cvars, rvars>>

(***************************************************************************)
(* main, odt: doc.write(sys.stdout.buffer).  main calls gen under the name *)
(* generate, which the package exports.                                    *)
(***************************************************************************)
Bytes(kind, doc, pp) == [kind |-> kind, doc |-> doc, pages |-> pp]

MainWriteOdt ==
    /\ pc = "generated"
    /\ fmt = "odt"
    /\ out' = Append(out, Bytes("odt", body, <<>>))
    /\ pc' = "done"
    /\ UNCHANGED <<input, fmt, backend, config, pos, body, err, cvars, rvars>>

(***************************************************************************)
(* Configurations.  The header fields have the types of the schema: title  *)
(* and subtitle are strings, urls maps strings to strings.                 *)
(***************************************************************************)
G == Str(<<"g">>)
R == Str(<<"r">>)
HeaderEntries ==
    { Pair(TitleKey, Str(<<"J", "d">>)),
      Pair(SubtitleKey, Str(<<"d", "e", "v">>)),
      Pair(UrlsKey, Dict(<<Pair(<<"s">>, Str(<<"x">>))>>)) }

GenValues ==
    { Str(<<>>), Str(<<"x", "_", "y">>), Int42,
      List(<<G, R>>),
      Dict(<<>>),
      Dict(<<Pair(<<"k">>, Str(<<"v">>))>>),
      Dict(<<Pair(<<"k">>, Str(<<"v">>)), Pair(Underscore, Str(<<"w">>))>>),
      Dict(<<Pair(Underscore, List(<<G, R, G>>))>>),
      Dict(<<Pair(Underscore, List(<<>>))>>),
      Dict(<<Pair(Underscore, Str(<<"a", "b", "c">>))>>),
      Dict(<<Pair(Underscore, List(<<G, Int42>>))>>),
      Dict(<<Pair(<<"k">>, Int42)>>),
      Dict(<<Pair(Underscore, List(<<G>>)), Pair(<<"k">>, Str(<<"v">>))>>) }

GenNames == {<<"a">>, <<"b", "c">>}

\* The ordered mappings of at most n of the entries, no key twice.
ConfigsOf(entries, n) ==
    {c \in SeqsUpTo(entries, n) : \A i, j \in DOMAIN c : i # j => c[i].k # c[j].k}

GenConfigs ==
    ConfigsOf(HeaderEntries \cup {Pair(n, v) : n \in GenNames, v \in GenValues},
              MaxEntries)

InitGen ==
    /\ input \in GenConfigs
    /\ config = input
    /\ fmt = "odt" /\ backend = "none"
    /\ pc = "generate" /\ pos = 1 /\ body = <<>> /\ out = <<>> /\ err = NoErr
    /\ pdf = <<>> /\ pages = <<>> /\ task = <<>> /\ gexc = NoErr /\ procs = <<>>
    /\ block = NoBlock /\ rendered = "no" /\ table = NoTable

NextGen == GenHeader \/ GenBlock \/ GenReturn \/ MainWriteOdt

SpecGen == InitGen /\ [][NextGen]_vars

(***************************************************************************)
(* main, pdf: pdf_convert and its two backends.                            *)
(***************************************************************************)
Threshold == 3
ExitCodes == {0, 1}
TextLens == {0, Threshold - 1, Threshold}

Cmd(prog, page, pp) == [prog |-> prog, page |-> page, pages |-> pp]

\* with_proc: raise CalledProcessError(p.returncode, args)
CalledProcessError(code, cmd) ==
    [kind |-> "CalledProcessError", name |-> <<>>, cmd |-> <<cmd>>, code |-> code]

UnableToAutoDetectBackend ==
    [kind |-> "UnableToAutoDetectBackend", name |-> <<>>, cmd |-> <<>>, code |-> 0]

Task(st, len) == [st |-> st, len |-> len]

\* A subprocess: its command and its return code, Running until it exits.
Running == -1
Proc(cmd, code) == [cmd |-> cmd, code |-> code]
Exit(ps, cmd, code) ==
    [i \in DOMAIN ps |-> IF ps[i].cmd = cmd THEN Proc(cmd, code) ELSE ps[i]]

\* with_proc that takes only a return code above 1 for a failure
with_proc_raises_above_one(code) == code > 1

\* with_proc: "if p.returncode != 0: raise CalledProcessError"
with_proc_raises(code) == code # 0

\* rm_if_empty_pdf that also removes a page of exactly 3 bytes
quite_empty_at_most(len) == len <= Threshold

\* len(content) < 3, "quite empty"
quite_empty(len) == len < Threshold

\* the permutations of 1..n: the orders glob may list n page files in
Perms(n) == {f \in [1..n -> 1..n] : \A i, j \in 1..n : i # j => f[i] # f[j]}

\* [page for page, removed in zip(pages, results) if not removed]
to_unite(pp, tk) == SelectSeq(pp, LAMBDA p : tk[p].st = "kept")

\* pdf_convert: pick the backend, by shutil.which when none was asked for.
PdfConvert ==
    /\ pc = "generated"
    /\ fmt = "pdf"
    /\ \/ /\ backend # "none"
          /\ pc' = backend
          /\ UNCHANGED <<backend, err>>
       \/ /\ backend = "none"
          /\ \E lo, pd \in BOOLEAN :
               IF lo THEN /\ backend' = "libreoffice"
                          /\ pc' = "libreoffice"
                          /\ UNCHANGED err
               ELSE IF pd THEN /\ backend' = "pandoc"
                               /\ pc' = "pandoc"
                               /\ UNCHANGED err
               ELSE /\ err' = UnableToAutoDetectBackend
                    /\ pc' = "failed"
                    /\ UNCHANGED backend
    /\ UNCHANGED <<input, fmt, config, pos, body, out, cvars, rvars>>

\* pdf_convert_pandoc: the document goes to pandoc's stdin, pandoc is created
\* with stdout=None and so writes to the standard output of the run itself.
PandocStart ==
    /\ pc = "pandoc"
    /\ procs' = Append(procs, Proc(Cmd("pandoc", 0, <<>>), Running))
    /\ pc' = "pandoc_wait"
    /\ UNCHANGED <<gvars_but_pc, pdf, pages, task, gexc, rvars>>

PandocExit ==
    /\ pc = "pandoc_wait"
    /\ \E code \in ExitCodes :
         /\ procs' = Exit(procs, Cmd("pandoc", 0, <<>>), code)
         /\ \/ /\ ~with_proc_raises(code)
               /\ \E n \in 1..MaxPages :
                    out' = Append(out, Bytes("pdf", body, [i \in 1..n |-> i]))
               /\ pc' = "done"
               /\ UNCHANGED err
            \/ /\ with_proc_raises(code)
               /\ \E wrote \in BOOLEAN :
                    out' = IF wrote THEN Append(out, Bytes("partial", body, <<>>)) ELSE out
               /\ err' = CalledProcessError(code, Cmd("pandoc", 0, <<>>))
               /\ pc' = "failed"
    /\ UNCHANGED <<input, fmt, backend, config, pos, body, pdf, pages, task, gexc, rvars>>

\* pdf_convert_libreoffice: doc.write(odt_path), then run("libreoffice", ...)
LibreofficeStart ==
    /\ pc = "libreoffice"
    /\ procs' = Append(procs, Proc(Cmd("libreoffice", 0, <<>>), Running))
    /\ pc' = "libreoffice_wait"
    /\ UNCHANGED <<gvars_but_pc, pdf, pages, task, gexc, rvars>>

\* libreoffice exits; on success the converted file has n pages and
\* run("pdfseparate", ...) follows at once.
LibreofficeExit ==
    /\ pc = "libreoffice_wait"
    /\ \E code \in ExitCodes :
         \/ /\ ~with_proc_raises(code)
            /\ \E n \in 1..MaxPages : pdf' = [i \in 1..n |-> i]
            /\ procs' = Append(Exit(procs, Cmd("libreoffice", 0, <<>>), code),
                               Proc(Cmd("pdfseparate", 0, <<>>), Running))
            /\ pc' = "pdfseparate_wait"
            /\ UNCHANGED err
         \/ /\ with_proc_raises(code)
            /\ procs' = Exit(procs, Cmd("libreoffice", 0, <<>>), code)
            /\ err' = CalledProcessError(code, Cmd("libreoffice", 0, <<>>))
            /\ pc' = "failed"
            /\ UNCHANGED pdf
    /\ UNCHANGED <<input, fmt, backend, config, pos, body, out, pages, task, gexc, rvars>>

\* The pdftotext of every page of pp, created in the order of pp.
RECURSIVE checks(_)
checks(pp) ==
    IF pp = <<>> THEN <<>>
    ELSE <<Proc(Cmd("pdftotext", Head(pp), <<>>), Running)>> \o checks(Tail(pp))

\* pdfseparate exits; on success glob lists the page files, in whatever order
\* the directory gives them, and gather makes one task per listed page: each
\* runs, in that order, up to the creation of its pdftotext before the event
\* loop looks at any exit.
PdfseparateExit ==
    /\ pc = "pdfseparate_wait"
    /\ \E code \in ExitCodes :
         \/ /\ ~with_proc_raises(code)
            /\ \E order \in Perms(Len(pdf)) :
                 /\ pages' = order
                 /\ procs' = Exit(procs, Cmd("pdfseparate", 0, <<>>), code) \o checks(order)
            /\ task' = [p \in 1..Len(pdf) |-> Task("running", 0)]
            /\ pc' = "gather"
            /\ UNCHANGED err
         \/ /\ with_proc_raises(code)
            /\ procs' = Exit(procs, Cmd("pdfseparate", 0, <<>>), code)
            /\ err' = CalledProcessError(code, Cmd("pdfseparate", 0, <<>>))
            /\ pc' = "failed"
            /\ UNCHANGED <<pages, task>>
    /\ UNCHANGED <<input, fmt, backend, config, pos, body, out, pdf, gexc, rvars>>

\* pdftotext of page p exits: with_proc raises, or the text is measured.
CheckExit(p) ==
    /\ pc = "gather"
    /\ task[p].st = "running"
    /\ \E code \in ExitCodes, len \in TextLens :
         /\ procs' = Exit(procs, Cmd("pdftotext", p, <<>>), code)
         /\ \/ /\ ~with_proc_raises(code)
               /\ task' = [task EXCEPT ![p] =
                             Task(IF quite_empty(len) THEN "unlinking" ELSE "kept", len)]
               /\ UNCHANGED gexc
            \/ /\ with_proc_raises(code)
               /\ task' = [task EXCEPT ![p] = Task("raised", 0)]
               /\ gexc' = IF gexc = NoErr
                          THEN CalledProcessError(code, Cmd("pdftotext", p, <<>>))
                          ELSE gexc
    /\ UNCHANGED <<gvars, pdf, pages, rvars>>

\* run_in_executor(None, page.unlink) is done: the task returns True.
CheckUnlink(p) ==
    /\ pc = "gather"
    /\ task[p].st = "unlinking"
    /\ task' = [task EXCEPT ![p] = Task("removed", task[p].len)]
    /\ UNCHANGED <<gvars, pdf, pages, gexc, procs, rvars>>

\* gather hands the first exception to pdf_convert_libreoffice, which ends;
\* asyncio.run cancels the tasks still running.
GatherRaise ==
    /\ pc = "gather"
    /\ gexc # NoErr
    /\ err' = gexc
    /\ task' = [p \in DOMAIN task |->
                  IF task[p].st \in {"running", "unlinking"}
                  THEN Task("cancelled", task[p].len) ELSE task[p]]
    /\ pc' = "failed"
    /\ UNCHANGED <<input, fmt, backend, config, pos, body, out, pdf, pages, gexc, procs, rvars>>

\* gather returns every task's result: pdfunite on the pages kept, or, when
\* none is, the converted file is renamed and written out.
GatherReturn ==
    /\ pc = "gather"
    /\ gexc = NoErr
    /\ \A p \in DOMAIN task : task[p].st \in {"kept", "removed"}
    /\ \/ /\ Len(to_unite(pages, task)) > 0
          /\ procs' = Append(procs, Proc(Cmd("pdfunite", 0, to_unite(pages, task)), Running))
          /\ pc' = "pdfunite_wait"
          /\ UNCHANGED out
       \/ /\ Len(to_unite(pages, task)) = 0
          /\ out' = Append(out, Bytes("pdf", body, pdf))
          /\ pc' = "done"
          /\ UNCHANGED procs
    /\ UNCHANGED <<input, fmt, backend, config, pos, body, err, pdf, pages, task, gexc, rvars>>

\* pdfunite exits; on success the united file is written out.
PdfuniteExit ==
    /\ pc = "pdfunite_wait"
    /\ \E code \in ExitCodes :
         /\ procs' = Exit(procs, Cmd("pdfunite", 0, to_unite(pages, task)), code)
         /\ \/ /\ ~with_proc_raises(code)
               /\ out' = Append(out, Bytes("pdf", body, to_unite(pages, task)))
               /\ pc' = "done"
               /\ UNCHANGED err
            \/ /\ with_proc_raises(code)
               /\ err' = CalledProcessError(code, Cmd("pdfunite", 0, to_unite(pages, task)))
               /\ pc' = "failed"
               /\ UNCHANGED out
    /\ UNCHANGED <<input, fmt, backend, config, pos, body, pdf, pages, task, gexc, rvars>>

(***************************************************************************)
(* The whole program: main() on a configuration, in either output mode.    *)
(***************************************************************************)
ProgEntries ==
    { Pair(TitleKey, Str(<<"J", "d">>)),
      Pair(<<"a">>, Str(<<"x", "_", "y">>)),
      Pair(<<"n">>, Int42),
      Pair(<<"b">>, Dict(<<Pair(Underscore, List(<<G, R>>))>>)),
      Pair(<<"b">>, List(<<G, R>>)),
      Pair(<<"b">>, Dict(<<Pair(<<"k">>, Str(<<"v">>))>>)) }

ProgConfigs == ConfigsOf(ProgEntries, MaxProgEntries)

Init ==
    /\ input \in ProgConfigs
    /\ config = input
    /\ \E m \in {<<"odt", "none">>, <<"pdf", "none">>,
                 <<"pdf", "libreoffice">>, <<"pdf", "pandoc">>} :
         fmt = m[1] /\ backend = m[2]
    /\ pc = "generate" /\ pos = 1 /\ body = <<>> /\ out = <<>> /\ err = NoErr
    /\ pdf = <<>> /\ pages = <<>> /\ task = <<>> /\ gexc = NoErr /\ procs = <<>>
    /\ block = NoBlock /\ rendered = "no" /\ table = NoTable

Next ==
    \/ GenHeader \/ GenBlock \/ GenReturn
    \/ MainWriteOdt
    \/ PdfConvert
    \/ PandocStart \/ PandocExit
    \/ LibreofficeStart \/ LibreofficeExit
    \/ PdfseparateExit
    \/ \E p \in DOMAIN task : CheckExit(p)
    \/ \E p \in DOMAIN task : CheckUnlink(p)
    \/ GatherRaise \/ GatherReturn
    \/ PdfuniteExit

Spec == Init /\ [][Next]_vars

(***************************************************************************)
(* What a reader of the document sees.                                     *)
(***************************************************************************)
RECURSIVE Concat(_)
Concat(ss) == IF ss = <<>> THEN <<>> ELSE Head(ss) \o Concat(Tail(ss))

RECURSIVE JoinLines(_)
JoinLines(ss) ==
    IF ss = <<>> THEN <<>>
    ELSE IF Len(ss) = 1 THEN ss[1]
    ELSE ss[1] \o <<"\n">> \o JoinLines(Tail(ss))

\* The text of a paragraph: its own text, then its children's.
ParaText(p) == p.text \o Concat([i \in DOMAIN p.children |-> p.children[i].text])

\* The text of a cell, a line break between its paragraphs.
CellText(cell) == JoinLines([i \in DOMAIN cell.paras |-> ParaText(cell.paras[i])])

\* The styled runs of a paragraph: a paragraph with only its own text is one
\* run that is not bold.
Runs(p) ==
    IF p.children = <<>> THEN <<[bold |-> FALSE, text |-> p.text]>>
    ELSE [i \in DOMAIN p.children |->
            [bold |-> p.children[i].style = "Bold", text |-> p.children[i].text]]

Without(s, c) == SelectSeq(s, LAMBDA x : x # c)
Count(s, c) == Cardinality({i \in DOMAIN s : s[i] = c})

\* The k-th piece (k >= 1) of s cut at each occurrence of c, read off the
\* positions of c.
Piece(s, c, k) ==
    LET at  == {i \in DOMAIN s : s[i] = c}
        nth(j) == CHOOSE i \in at : Cardinality({x \in at : x < i}) = j - 1
        from == IF k = 1 THEN 1 ELSE nth(k - 1) + 1
        to   == IF k = Cardinality(at) + 1 THEN Len(s) ELSE nth(k) - 1
    IN SubSeq(s, from, to)

(***************************************************************************)
(* Claims about the renderers, checked under SpecRender.                   *)
(***************************************************************************)

\* The two-column layout of the items of a list section in table tbl.
ListLayout(tbl, name, items) ==
    LET n == Len(items)
        h == (n + 1) \div 2
        rows == tbl.rows
    IN /\ Len(rows) = 1 + h
       /\ Len(rows[1]) = 1
       /\ CellText(rows[1][1]) = <<"+", " ">> \o upper(name)
       /\ \A i \in 1..h :
            /\ Len(rows[i + 1]) = 2
            /\ Len(rows[i + 1][1].paras) = 1
            /\ CellText(rows[i + 1][1]) = items[i].s
            /\ IF h + i <= n
               THEN /\ Len(rows[i + 1][2].paras) = 1
                    /\ CellText(rows[i + 1][2]) = items[h + i].s
               ELSE rows[i + 1][2].paras = <<>>
       /\ n % 2 = 1 => rows[1 + h][2].paras = <<>>

\* C4: a list section of n items has, after the header row, ceil(n/2) rows;
\* row i has exactly two cells, item i in the first and item ceil(n/2)+i in
\* the second, and when n is odd the second cell of the last row is there
\* and empty.
C4_ListRows ==
    rendered = "list" => ListLayout(table, block.name, block.value.items)

\* C4, reached: three items, the second cell of the last row empty.
C4_Witness ==
    /\ rendered = "list"
    /\ Len(block.value.items) = 3
    /\ Len(table.rows) = 3
    /\ table.rows[3][2].paras = <<>>
    /\ table.rows[2][2].paras # <<>>

\* C5 (as claimed): the content of every text block and every line of every
\* dict value is cut at each underscore into tokens, token i (from 0) bold
\* exactly when i is odd; list items are one plain run.
C5_EmphasisOnTextAndDict ==
    LET Tokens(s) == [k \in 1..(Count(s, "_") + 1) |->
                        [bold |-> (k - 1) % 2 = 1, text |-> Piece(s, "_", k)]]
    IN /\ rendered = "text" =>
            /\ Len(table.rows[2][1].paras) = 1
            /\ Runs(table.rows[2][1].paras[1]) = Tokens(block.value.s)
       /\ rendered = "dict" =>
            \A i \in DOMAIN block.value.pairs :
              LET v == block.value.pairs[i].v.s
                  paras == table.rows[i + 1][2].paras
              IN /\ Len(paras) = Count(v, "\n") + 1
                 /\ \A k \in DOMAIN paras : Runs(paras[k]) = Tokens(Piece(v, "\n", k))
       /\ rendered = "list" =>
            \A i \in 2..Len(table.rows) : \A e \in 1..2 :
              \A k \in DOMAIN table.rows[i][e].paras :
                table.rows[i][e].paras[k].children = <<>>

\* C6 (as claimed): a dict section of m pairs has, after the header row, m
\* rows in the mapping's order, each a key cell whose text is the key and a
\* value cell whose text is the value, whatever the value holds.
C6_ValueTextEqualsInput ==
    rendered = "dict" =>
      LET pairs == block.value.pairs IN
      /\ Len(table.rows) = 1 + Len(pairs)
      /\ \A i \in DOMAIN pairs :
           /\ Len(table.rows[i + 1]) = 2
           /\ CellText(table.rows[i + 1][1]) = pairs[i].k
           /\ CellText(table.rows[i + 1][2]) = pairs[i].v.s

\* C6 (amended): as above, but the value cell holds one paragraph per line of
\* the value and its text is the value with every underscore removed.
C6_ValueTextWithoutUnderscores ==
    rendered = "dict" =>
      LET pairs == block.value.pairs IN
      /\ Len(table.rows) = 1 + Len(pairs)
      /\ \A i \in DOMAIN pairs :
           /\ Len(table.rows[i + 1]) = 2
           /\ CellText(table.rows[i + 1][1]) = pairs[i].k
           /\ Len(table.rows[i + 1][2].paras) = Count(pairs[i].v.s, "\n") + 1
           /\ CellText(table.rows[i + 1][2]) = Without(pairs[i].v.s, "_")

\* C6, reached: a value with an underscore and a newline, in two paragraphs.
C6_Witness ==
    /\ rendered = "dict"
    /\ Len(block.value.pairs) = 2
    /\ block.value.pairs[2].v.s = <<"_", "\n">>
    /\ Len(table.rows) = 3
    /\ Len(table.rows[3][2].paras) = 2

(***************************************************************************)
(* Claims about gen, checked under SpecGen.  The shapes are those of the   *)
(* classifier's rules: a string, exactly {"_": list of strings}, a mapping *)
(* of strings to strings.                                                  *)
(***************************************************************************)
IsHeaderKey(k) == k \in {TitleKey, SubtitleKey, UrlsKey}
Sections(c) == SelectSeq(c, LAMBDA e : ~IsHeaderKey(e.k))

IsListOfStr(v) == v.t = "list" /\ \A i \in DOMAIN v.items : v.items[i].t = "str"
IsAliasList(v) ==
    /\ v.t = "dict"
    /\ Len(v.pairs) = 1
    /\ v.pairs[1].k = <<"_">>
    /\ IsListOfStr(v.pairs[1].v)
IsStrMap(v) == v.t = "dict" /\ \A i \in DOMAIN v.pairs : v.pairs[i].v.t = "str"
Recognized(v) == v.t = "str" \/ IsAliasList(v) \/ IsStrMap(v)

AllRecognized(secs) == \A i \in DOMAIN secs : Recognized(secs[i].v)
\* the sections before the i-th are all recognized: gen gets to the i-th
Reached(secs, i) == \A j \in 1..(i - 1) : Recognized(secs[j].v)

Returned == pc \in {"generated", "done"}

\* C1: when every section other than title, subtitle and urls has a
\* recognized shape (the header fields having the types of the schema), gen
\* does not fail, and the document it returns is the header table followed
\* by exactly one table per such section, in the order of the configuration;
\* title, subtitle and urls give no table.
C1_OneTablePerSection ==
    LET secs == Sections(input) IN
    AllRecognized(secs) =>
      /\ err = NoErr
      /\ pc # "failed"
      /\ Returned =>
           /\ Len(body) = 1 + Len(secs)
           /\ body[1].columns = <<"Table title", "Table urls">>
           /\ \A i \in DOMAIN secs :
                CellText(body[i + 1].rows[1][1]) = <<"+", " ">> \o upper(secs[i].k)

\* C1, reached: urls and one section, generated and written as odt.
C1_Witness ==
    /\ pc = "done"
    /\ Len(input) = 2
    /\ input[1].k = UrlsKey
    /\ ~IsHeaderKey(input[2].k)
    /\ Len(body) = 2
    /\ Len(out) = 1

\* C3 (as claimed): a section whose value is a sequence of strings s is
\* rendered, and exactly as the section {"_": s} of the same name is.
C3_SequenceRendersAsAlias ==
    LET secs == Sections(input) IN
    \A i \in DOMAIN secs :
      (IsListOfStr(secs[i].v) /\ Reached(secs, i) /\ pc \in {"generated", "done", "failed"}) =>
        /\ Len(body) >= i + 1
        /\ body[i + 1] =
             section_table(get_blocks_item(secs[i].k,
                                           Dict(<<Pair(Underscore, secs[i].v)>>)).block)

\* C3 (amended): a section {"_": s}, s a list of strings, is rendered as the
\* list section of s; a section whose value is the list s itself is not
\* rendered: gen fails there with UnexpectedBlockType naming the section.
C3_AliasIsListSequenceIsError ==
    LET secs == Sections(input) IN
    \A i \in DOMAIN secs :
      /\ (IsAliasList(secs[i].v) /\ Len(body) >= i + 1) =>
           /\ body[i + 1].columns = <<"Table value", "Table value">>
           /\ ListLayout(body[i + 1], secs[i].k, secs[i].v.pairs[1].v.items)
      /\ (IsAliasList(secs[i].v) /\ Reached(secs, i)
            /\ pc \in {"generated", "done", "failed"}) => Len(body) >= i + 1
      /\ (IsListOfStr(secs[i].v) /\ Reached(secs, i)) =>
           /\ ~Returned
           /\ Len(body) <= i
           /\ pc = "failed" => err = UnexpectedBlockType(secs[i].k)

\* C3, reached: an alias of three items rendered, then a bare list refused.
C3_Witness ==
    /\ pc = "failed"
    /\ Len(input) = 2
    /\ IsAliasList(input[1].v) /\ Len(input[1].v.pairs[1].v.items) = 3
    /\ IsListOfStr(input[2].v) /\ Len(input[2].v.items) = 2
    /\ Len(body) = 2
    /\ err.name = input[2].k

\* C9 (as claimed): a string is rendered as a text section; exactly
\* {"_": list of strings} as a list section; every other mapping of strings
\* to strings, the empty one and {"_": "abc"} among them, as a dict section
\* of key/value rows; every other value ends gen with an error.
C9_KindByRule ==
    LET secs == Sections(input) IN
    /\ Returned =>
         \A i \in DOMAIN secs :
           LET v == secs[i].v
               k == secs[i].k
           IN /\ Recognized(v)
              /\ body[i + 1] =
                   IF v.t = "str" THEN get_text_section(Block(k, v))
                   ELSE IF IsAliasList(v) THEN get_list_section(Block(k, v.pairs[1].v))
                   ELSE get_dict_section(Block(k, v))
    /\ pc = "failed" =>
         \E i \in DOMAIN secs :
           ~Recognized(secs[i].v) /\ Reached(secs, i) /\ err = UnexpectedBlockType(secs[i].k)

(***************************************************************************)
(* Claims about the whole run, checked under Spec.                         *)
(***************************************************************************)

\* C2: when some section has none of the recognized shapes, nothing is ever
\* written to the output, in either output mode, and the run ends failed
\* with UnexpectedBlockType naming the first such section, wherever it sits.
C2_BadShapeNoOutput ==
    LET secs == Sections(input)
        bad  == {i \in DOMAIN secs : ~Recognized(secs[i].v)}
    IN bad # {} =>
         /\ out = <<>>
         /\ pc \in {"generate", "blocks", "failed"}
         /\ pc = "failed" =>
              err = [kind |-> "UnexpectedBlockType",
                     name |-> secs[CHOOSE i \in bad : \A j \in bad : i <= j].k,
                     cmd |-> <<>>, code |-> 0]

\* C2, reached: pdf mode, a recognized section rendered, then the bad one.
C2_Witness ==
    /\ pc = "failed"
    /\ fmt = "pdf"
    /\ Len(input) = 2
    /\ Recognized(input[1].v) /\ ~IsHeaderKey(input[1].k)
    /\ ~Recognized(input[2].v)
    /\ Len(body) = 2
    /\ err.name = input[2].k
    /\ out = <<>>

Range(s) == {s[i] : i \in DOMAIN s}
IsProg(prog) == {i \in DOMAIN procs : procs[i].cmd.prog = prog}

\* C7: in the libreoffice path, when a page has text of 3 bytes or more the
\* output holds exactly the pages with such text; when none has, pdfunite is
\* never created, the run does not fail, and the output is the converted
\* file as libreoffice made it.
C7_BlankPagesDropped ==
    LET long == {p \in DOMAIN task : task[p].len >= 3} IN
    /\ (backend = "libreoffice" /\ pc = "done") =>
         /\ Len(out) = 1
         /\ out[1].kind = "pdf"
         /\ out[1].doc = body
         /\ IF long # {}
            THEN /\ Range(out[1].pages) = long
                 /\ Len(out[1].pages) = Cardinality(long)
            ELSE /\ out[1].pages = [i \in 1..Len(pdf) |-> i]
                 /\ IsProg("pdfunite") = {}
    /\ (task # <<>> /\ \A p \in DOMAIN task : task[p].st = "removed") =>
         /\ pc \in {"gather", "done"}
         /\ IsProg("pdfunite") = {}

\* C7, reached: page 1 of 2 bytes dropped, page 2 of 3 bytes in the output.
C7_Witness ==
    /\ pc = "done"
    /\ backend = "libreoffice"
    /\ Len(pdf) = 2
    /\ task[1].len = 2 /\ task[1].st = "removed"
    /\ task[2].len = 3 /\ task[2].st = "kept"
    /\ out[1].pages = <<2>>

Stage(prog) ==
    CASE prog = "libreoffice" -> 1
      [] prog = "pdfseparate" -> 2
      [] prog = "pdftotext" -> 3
      [] prog = "pdfunite" -> 4
      [] prog = "pandoc" -> 1

\* C8: once a subprocess has exited non-zero the run can only end failed,
\* with a CalledProcessError that carries the command and the exit code of
\* a subprocess that failed; that command was created once, no command of a
\* later stage was created, and in the libreoffice path nothing was written.
C8_FailedProcessAborts ==
    \A i \in DOMAIN procs :
      procs[i].code \notin {-1, 0} =>
        /\ pc \in {"gather", "failed"}
        /\ pc = "gather" => procs[i].cmd.prog = "pdftotext"
        /\ pc = "failed" =>
             /\ err.kind = "CalledProcessError"
             /\ err.code # 0
             /\ \E j \in DOMAIN procs :
                  procs[j].cmd = err.cmd[1] /\ procs[j].code = err.code
        /\ Cardinality({j \in DOMAIN procs : procs[j].cmd = procs[i].cmd}) = 1
        /\ \A j \in DOMAIN procs : Stage(procs[j].cmd.prog) <= Stage(procs[i].cmd.prog)
        /\ backend = "libreoffice" => out = <<>>

\* C8, reached: a pdftotext failed after another page was kept.
C8_Witness ==
    /\ pc = "failed"
    /\ backend = "libreoffice"
    /\ Len(pdf) = 2
    /\ err.kind = "CalledProcessError"
    /\ err.cmd[1].prog = "pdftotext"
    /\ \E p \in DOMAIN task : task[p].st = "kept"
    /\ out = <<>>

\* C10 (as claimed): pdfunite is given the surviving pages in the order of
\* their page numbers, whatever order glob listed the files in.
C10_UniteInPageOrder ==
    \A i \in IsProg("pdfunite") :
      LET pp == procs[i].cmd.pages IN
      /\ Range(pp) = {p \in DOMAIN task : task[p].st = "kept"}
      /\ \A a, b \in DOMAIN pp : a < b => pp[a] < pp[b]

=============================================================================
